---- MODULE Spec2Model ----
(***************************************************************************)
(* A model of the `rewrite` tool: the binding classifier (analyzer.py),    *)
(* the declaration rewriter (transformer.py), the import and usage         *)
(* resolver (usage_updater.py), the module scanner (scanner.py) and the    *)
(* command-line run that drives them (cli.py).                             *)
(*                                                                         *)
(* Text is modelled as sequences of one-character strings, so that         *)
(* str.endswith, str.startswith and the naming regex act on characters; a  *)
(* name that is only ever compared whole (__init__, venv) is one element.  *)
(* A parsed file is modelled by the part of its syntax tree the tool       *)
(* inspects, with the lineno and col_offset the parser gives each node.    *)
(***************************************************************************)
EXTENDS Integers, Sequences, FiniteSets, TLC

VARIABLES
    \* ---- the target pipeline: analyze_file, transform_file, analyze_file
    t_pc, t_source, t_found, t_out, t_again,
    \* ---- update_usage_file on one consuming file
    u_pc, u_source, u_module, u_result,
    \* ---- the command-line run
    pc, apply, pattern_given, config_saved, git_root, fs0, fs,
    variables, skipped, module_root, python_files, remaining, results,
    files_to_update, to_write, transformed_source, io, error,
    \* ---- scan_module on one tree
    s_pc, s_target, s_files, s_git, s_root, s_found

tvars == <<t_pc, t_source, t_found, t_out, t_again>>
uvars == <<u_pc, u_source, u_module, u_result>>
cvars == <<pc, apply, pattern_given, config_saved, git_root, fs0, fs,
           variables, skipped, module_root, python_files, remaining, results,
           files_to_update, to_write, transformed_source, io, error>>
svars == <<s_pc, s_target, s_files, s_git, s_root, s_found>>
vars == <<tvars, uvars, cvars, svars>>

\* ------------------------------------------------------------------ bounds

\* Top-level statements of a generated target file.
MaxStmts == 2
\* Import statements of a generated consuming file.
MaxImports == 2
\* Directories between the filesystem root and a generated target file.
MaxDepth == 3

\* ------------------------------------------------------------------- text

Lower == {"a", "b", "c", "f", "g", "k", "n", "p", "s", "x", "y", "z"}
Upper == {"A", "Y"}
Digit == {"0", "1"}

\* Python's None, where a str or a path is expected, and where a file's text is.
None == <<"None">>
NoText == [none |-> TRUE]
\* None where a path is expected.
NoPath == <<<<"None">>>>

SeqsUpTo(S, n) == UNION {[1..k -> S] : k \in 0..n}

Range(s) == {s[i] : i \in 1..Len(s)}

\* str.endswith(suffix), on characters.
endswith(s, suffix) ==
    /\ Len(suffix) <= Len(s)
    /\ SubSeq(s, Len(s) - Len(suffix) + 1, Len(s)) = suffix

\* str.startswith(prefix), on characters.
startswith(s, prefix) ==
    /\ Len(prefix) <= Len(s)
    /\ SubSeq(s, 1, Len(prefix)) = prefix

RECURSIVE Concat(_)
Concat(ss) == IF ss = <<>> THEN <<>> ELSE Head(ss) \o Concat(Tail(ss))

\* ".".join(parts)
RECURSIVE join_dot(_)
join_dot(parts) ==
    IF parts = <<>> THEN <<>>
    ELSE IF Len(parts) = 1 THEN parts[1]
    ELSE parts[1] \o <<".">> \o join_dot(Tail(parts))

\* ------------------------------------------------- analyzer.py: the target

\* re.match(r"^[a-z][a-z0-9_]*$", name) is not None
is_lowercase_snake_case(name) ==
    /\ Len(name) >= 1
    /\ name[1] \in Lower
    /\ \A i \in 2..Len(name) : name[i] \in Lower \cup Digit \cup {"_"}

\* Variable(name, lineno, value_node, ...)
Variable(node) ==
    [name |-> node.targets[1].id, lineno |-> node.lineno, value_node |-> node.value]

\* SkippedPattern(lineno, reason, ...)
SkippedPattern(node, reason) == [lineno |-> node.lineno, reason |-> reason]

\* ast.walk(tree), the statements it yields: breadth first, so the module's own
\* statements in order, then the statements nested in each compound statement.
ast_walk(body) ==
    body \o Concat([i \in 1..Len(body) |->
                      IF body[i].node = "If" THEN body[i].body ELSE <<>>])

\* What the loop body of analyze_file does with one node.
classify(node) ==
    IF node.node # "Assign" THEN "not_assign"
    ELSE IF node.col_offset # 0 THEN "not_module_level"
    ELSE IF Len(node.targets) > 1 THEN "multiple assignment"
    ELSE IF node.targets[1].kind = "Tuple" THEN "tuple unpacking"
    ELSE IF node.targets[1].kind # "Name" THEN "not_name"
    ELSE IF ~is_lowercase_snake_case(node.targets[1].id) THEN "not_snake_case"
    ELSE IF startswith(node.targets[1].id, <<"_">>) THEN "private"
    ELSE "variable"

RECURSIVE collect_variables(_)
collect_variables(nodes) ==
    IF nodes = <<>> THEN <<>>
    ELSE (IF classify(Head(nodes)) = "variable"
          THEN <<Variable(Head(nodes))>> ELSE <<>>)
         \o collect_variables(Tail(nodes))

RECURSIVE collect_skipped(_)
collect_skipped(nodes) ==
    IF nodes = <<>> THEN <<>>
    ELSE (IF classify(Head(nodes)) \in {"multiple assignment", "tuple unpacking"}
          THEN <<SkippedPattern(Head(nodes), classify(Head(nodes)))>> ELSE <<>>)
         \o collect_skipped(Tail(nodes))

\* analyze_file(file_path), given the text read from the file. A text that does
\* not parse raises ValueError.
analyze_file(source) ==
    IF ~source.ok
    THEN [raised |-> "ValueError", variables |-> <<>>, skipped |-> <<>>]
    ELSE [raised |-> "none",
          variables |-> collect_variables(ast_walk(source.body)),
          skipped |-> collect_skipped(ast_walk(source.body))]

\* {var.name for var in variables}
var_names_of(vs) == {vs[i].name : i \in 1..Len(vs)}

\* --------------------------------------------- transformer.py: the rewrite

\* ast.FunctionDef(name=target.id, args=<none>, body=[ast.Return(node.value)], ...)
FunctionDef(name, value, lineno, col_offset) ==
    [node |-> "FunctionDef", name |-> name,
     body |-> <<[node |-> "Return", value |-> value]>>,
     lineno |-> lineno, col_offset |-> col_offset]

visit_Assign(node, variables_to_convert) ==
    IF node.col_offset # 0 THEN node
    ELSE IF Len(node.targets) # 1 THEN node
    ELSE IF node.targets[1].kind # "Name" THEN node
    ELSE IF node.targets[1].id \in variables_to_convert
         THEN FunctionDef(node.targets[1].id, node.value, node.lineno, node.col_offset)
    ELSE node

\* NodeTransformer.visit on a statement: visit_Assign on an assignment,
\* generic_visit (the children, in place) on anything else.
visit_stmt(node, variables_to_convert) ==
    IF node.node = "Assign" THEN visit_Assign(node, variables_to_convert)
    ELSE IF node.node = "If"
         THEN [node EXCEPT !.body =
                 [j \in 1..Len(node.body) |->
                    visit_Assign(node.body[j], variables_to_convert)]]
    ELSE node

RECURSIVE unparse_from(_, _, _, _)
\* The statements as ast.parse reads them back from the text ast.unparse writes:
\* every statement on lines of its own, at column `col` of its block, and a def
\* (two lines) after a blank line unless it opens the file.
unparse_from(body, line, first, col) ==
    IF body = <<>> THEN [stmts |-> <<>>, next |-> line]
    ELSE LET n == Head(body)
             start == IF n.node = "FunctionDef" /\ ~first THEN line + 1 ELSE line
             inner == IF n.node = "If"
                      THEN unparse_from(n.body, start + 1, FALSE, col + 4)
                      ELSE [stmts |-> <<>>, next |-> start + 1]
             laid == IF n.node = "If"
                     THEN [n EXCEPT !.lineno = start, !.col_offset = col,
                                    !.body = inner.stmts]
                     ELSE [n EXCEPT !.lineno = start, !.col_offset = col]
             after == IF n.node = "If" THEN inner.next
                      ELSE IF n.node = "FunctionDef" THEN start + 2
                      ELSE start + 1
             rest == unparse_from(Tail(body), after, FALSE, col)
         IN [stmts |-> <<laid>> \o rest.stmts, next |-> rest.next]

\* ast.unparse(tree), as the text reads when parsed again.
unparse(body) == [ok |-> TRUE, body |-> unparse_from(body, 1, TRUE, 0).stmts]

\* transform_file(file_path, variables), given the text read from the file: the
\* text it returns. Its ast.parse is not guarded: a text that does not parse
\* raises SyntaxError.
transform_file(source, vs) ==
    IF ~source.ok THEN [raised |-> "SyntaxError", text |-> NoText]
    ELSE [raised |-> "none",
          text |-> unparse([i \in 1..Len(source.body) |->
                              visit_stmt(source.body[i], var_names_of(vs))])]

\* ------------------------------------------------ target files considered

Name(id) == [kind |-> "Name", id |-> id, elts |-> <<>>]
Tuple(elts) == [kind |-> "Tuple", id |-> <<>>, elts |-> elts]
List(elts) == [kind |-> "List", id |-> <<>>, elts |-> elts]
Attribute == [kind |-> "Attribute", id |-> <<>>, elts |-> <<>>]

Assign(targets, value, col) ==
    [node |-> "Assign", targets |-> targets, value |-> value,
     lineno |-> 0, col_offset |-> col]

ValueExprs == {"v1", "v2"}

\* x = v | y = v | Y = v | _p = v | x, y = v | [x, y] = v | o.a = v | x = y = v
TargetLists ==
    {<<Name(id)>> : id \in {<<"x">>, <<"y">>, <<"Y">>, <<"_", "p">>}}
    \cup {<<Tuple(<<<<"x">>, <<"y">>>>)>>, <<List(<<<<"x">>, <<"y">>>>)>>,
          <<Attribute>>, <<Name(<<"x">>), Name(<<"y">>)>>}

\* A module-level assignment starts its line (column 0) or follows `;` on the
\* line of the statement before it (column 7).
TopAssigns ==
    {Assign(ts, v, c) : ts \in TargetLists, v \in ValueExprs, c \in {0, 7}}

\* An assignment nested in a compound statement is indented (column 4), or sits
\* at column 0 of a continuation line: `if c: \` and then `y = v`.
NestedAssigns ==
    {Assign(ts, "v1", c) :
       ts \in {<<Name(<<"x">>)>>, <<Name(<<"y">>)>>, <<Tuple(<<<<"x">>, <<"y">>>>)>>},
       c \in {0, 4}}

Compounds ==
    {[node |-> "If", body |-> <<a>>, lineno |-> 0, col_offset |-> 0] :
       a \in NestedAssigns}

TopStmts == TopAssigns \cup Compounds \cup {FunctionDef(<<"x">>, "v1", 0, 0)}

\* Only a simple statement can be followed by `;` and another statement, and the
\* first statement of a file starts at column 0.
WellFormed(body) ==
    /\ body # <<>>
    /\ body[1].col_offset = 0
    /\ \A i \in 2..Len(body) :
         body[i].col_offset # 0 => body[i - 1].node = "Assign"

RECURSIVE parse_lines(_, _)
\* The line numbers ast.parse gives the statements of the text as written.
parse_lines(body, line) ==
    IF body = <<>> THEN <<>>
    ELSE LET n == Head(body) IN
         IF n.node = "Assign" /\ n.col_offset # 0
         THEN <<[n EXCEPT !.lineno = line - 1]>> \o parse_lines(Tail(body), line)
         ELSE IF n.node = "If"
         THEN <<[n EXCEPT !.lineno = line,
                          !.body = [j \in 1..Len(n.body) |->
                                      [n.body[j] EXCEPT !.lineno = line + j]]]>>
              \o parse_lines(Tail(body), line + 1 + Len(n.body))
         ELSE IF n.node = "FunctionDef"
         THEN <<[n EXCEPT !.lineno = line]>> \o parse_lines(Tail(body), line + 2)
         ELSE <<[n EXCEPT !.lineno = line]>> \o parse_lines(Tail(body), line + 1)

Unparsable == [ok |-> FALSE, body |-> <<>>]

TargetSources ==
    {[ok |-> TRUE, body |-> parse_lines(b, 1)] :
       b \in {s \in SeqsUpTo(TopStmts, MaxStmts) : WellFormed(s)}}
    \cup {Unparsable}

NoAnalysis == [raised |-> "none", variables |-> <<>>, skipped |-> <<>>]

\* ------------------------------------- the target pipeline as a state machine

T_Idle ==
    /\ t_pc = "idle" /\ t_source = Unparsable /\ t_found = NoAnalysis
    /\ t_out = NoText /\ t_again = NoAnalysis

T_Init ==
    /\ t_pc = "read"
    /\ t_source \in TargetSources
    /\ t_found = NoAnalysis
    /\ t_out = NoText
    /\ t_again = NoAnalysis

\* cli step 1: analyze_file(target_file)
T_Analyze ==
    /\ t_pc = "read"
    /\ t_found' = analyze_file(t_source)
    /\ t_pc' = IF t_found'.raised = "none" THEN "analyzed" ELSE "failed"
    /\ UNCHANGED <<t_source, t_out, t_again>>

\* cli step 5: transform_file(target_file, variables), and the text written back
T_Transform ==
    /\ t_pc = "analyzed"
    /\ t_out' = transform_file(t_source, t_found.variables).text
    /\ t_pc' = "written"
    /\ UNCHANGED <<t_source, t_found, t_again>>

\* a second run's analyze_file on the rewritten target
T_Reanalyze ==
    /\ t_pc = "written"
    /\ t_again' = analyze_file(t_out)
    /\ t_pc' = "reanalyzed"
    /\ UNCHANGED <<t_source, t_found, t_out>>

\* --------------------------------------- usage_updater.py: consuming files

\* The names the target declares that were converted, and the names a
\* consuming file uses: x is converted, k is declared but not converted.
ConvertedVars == {<<"x">>}

\* ImportInfo(original_name, alias, import_type, module_name)
ImportInfo(original_name, alias, import_type, module_name) ==
    [original_name |-> original_name, alias |-> alias,
     import_type |-> import_type, module_name |-> module_name]

\* StarImportWarning(lineno, module_name)
StarImportWarning(lineno, module_name) ==
    [lineno |-> lineno, module_name |-> module_name]

\* UsageUpdate(lineno, col_offset, original, updated, import_info)
UsageUpdate(lineno, col_offset, original, import_info) ==
    [lineno |-> lineno, col_offset |-> col_offset, original |-> original,
     updated |-> original \o <<"(", ")">>, import_info |-> import_info]

\* f"__module__{imported_as}"
module_key(imported_as) ==
    <<"_", "_", "m", "o", "d", "u", "l", "e", "_", "_">> \o imported_as

\* dict[key] = value
dict_set(d, key, value) == (key :> value) @@ d

EmptyDict == <<>>

\* alias.asname if alias.asname else alias.name
imported_as_of(alias) == IF alias.asname # None THEN alias.asname ELSE alias.name

\* The test of analyze_imports on `from M import ...`.
import_from_matches(module, target_module) ==
    \/ module = target_module
    \/ (module # None /\ endswith(target_module, module))

\* The test of analyze_imports on `import M`.
import_matches(name, target_module) ==
    \/ name = target_module
    \/ startswith(target_module, name \o <<".">>)

\* A variant that takes `*` to import every converted name, without a warning.
import_from_alias_star_binds(acc, node, alias, converted_vars) ==
    IF alias.name = <<"*">>
    THEN [acc EXCEPT !.imports =
            [v \in converted_vars |-> ImportInfo(v, v, "from", node.module)] @@ @]
    ELSE IF alias.name \in converted_vars
    THEN [acc EXCEPT !.imports =
            dict_set(@, imported_as_of(alias),
                     ImportInfo(alias.name, imported_as_of(alias), "from", node.module))]
    ELSE acc

\* One alias of a matching `from M import ...`: a warning for `*`, a binding for
\* a converted name, nothing otherwise.
import_from_alias(acc, node, alias, converted_vars) ==
    IF alias.name = <<"*">>
    THEN [acc EXCEPT !.star_warnings =
            Append(@, StarImportWarning(node.lineno, node.module))]
    ELSE IF alias.name \in converted_vars
    THEN [acc EXCEPT !.imports =
            dict_set(@, imported_as_of(alias),
                     ImportInfo(alias.name, imported_as_of(alias), "from", node.module))]
    ELSE acc

\* One alias of `import M [as alias]`.
import_alias(acc, alias, target_module) ==
    IF import_matches(alias.name, target_module)
    THEN [acc EXCEPT !.imports =
            dict_set(@, module_key(imported_as_of(alias)),
                     ImportInfo(alias.name, imported_as_of(alias), "direct", alias.name))]
    ELSE acc

RECURSIVE import_names(_, _, _, _, _)
\* for alias in node.names
import_names(acc, node, names, target_module, converted_vars) ==
    IF names = <<>> THEN acc
    ELSE import_names(
           IF node.node = "ImportFrom"
           THEN import_from_alias(acc, node, Head(names), converted_vars)
           ELSE import_alias(acc, Head(names), target_module),
           node, Tail(names), target_module, converted_vars)

RECURSIVE import_nodes(_, _, _, _)
\* for node in ast.walk(tree)
import_nodes(acc, nodes, target_module, converted_vars) ==
    IF nodes = <<>> THEN acc
    ELSE LET node == Head(nodes)
             taken == \/ node.node = "Import"
                      \/ (node.node = "ImportFrom"
                          /\ import_from_matches(node.module, target_module))
         IN import_nodes(
              IF taken
              THEN import_names(acc, node, node.names, target_module, converted_vars)
              ELSE acc,
              Tail(nodes), target_module, converted_vars)

\* A variant without the `except SyntaxError` around ast.parse.
analyze_imports_unguarded(source, target_module, converted_vars) ==
    IF ~source.ok
    THEN [raised |-> "SyntaxError", imports |-> EmptyDict, star_warnings |-> <<>>]
    ELSE import_nodes([raised |-> "none", imports |-> EmptyDict, star_warnings |-> <<>>],
                      source.imports, target_module, converted_vars)

\* analyze_imports(file_path, target_module, converted_vars), given the text
\* read from the file: a text that does not parse gives ({}, []).
analyze_imports(source, target_module, converted_vars) ==
    IF ~source.ok
    THEN [raised |-> "none", imports |-> EmptyDict, star_warnings |-> <<>>]
    ELSE import_nodes([raised |-> "none", imports |-> EmptyDict, star_warnings |-> <<>>],
                      source.imports, target_module, converted_vars)

\* ---- the expressions of a consuming file

NameNode(id, ctx, resolves, col) ==
    [t |-> "Name", id |-> id, ctx |-> ctx, resolves |-> resolves, col_offset |-> col]
AttributeNode(value, attr, ctx) ==
    [t |-> "Attribute", value |-> value, attr |-> attr, ctx |-> ctx,
     col_offset |-> value.col_offset]
CallNode(func) == [t |-> "Call", func |-> func, col_offset |-> func.col_offset]
BinOpNode(left, right) ==
    [t |-> "BinOp", left |-> left, right |-> right, col_offset |-> left.col_offset]

\* ast.Call(func=node, args=[], keywords=[], lineno=..., col_offset=...)
Call(node) == CallNode(node)

visit_Name(node, lineno, imports) ==
    IF node.id \in DOMAIN imports /\ imports[node.id].import_type = "from"
    THEN [node |-> Call(node),
          updates |-> <<UsageUpdate(lineno, node.col_offset, node.id, imports[node.id])>>]
    ELSE [node |-> node, updates |-> <<>>]

\* The test of visit_Attribute: module.var where var was converted.
attribute_matches(node, imports, converted_vars) ==
    /\ node.value.t = "Name"
    /\ module_key(node.value.id) \in DOMAIN imports
    /\ node.attr \in converted_vars

RECURSIVE visit(_, _, _, _)
\* NodeTransformer.visit: visit_Name, visit_Attribute, and generic_visit on the
\* children of anything they do not replace.
visit(node, lineno, imports, converted_vars) ==
    IF node.t = "Name" THEN visit_Name(node, lineno, imports)
    ELSE IF node.t = "Attribute"
    THEN IF attribute_matches(node, imports, converted_vars)
         THEN [node |-> Call(node),
               updates |-> <<UsageUpdate(lineno, node.col_offset,
                                         node.value.id \o <<".">> \o node.attr,
                                         imports[module_key(node.value.id)])>>]
         ELSE LET v == visit(node.value, lineno, imports, converted_vars)
              IN [node |-> [node EXCEPT !.value = v.node], updates |-> v.updates]
    ELSE IF node.t = "Call"
    THEN LET f == visit(node.func, lineno, imports, converted_vars)
         IN [node |-> [node EXCEPT !.func = f.node], updates |-> f.updates]
    ELSE LET l == visit(node.left, lineno, imports, converted_vars)
             r == visit(node.right, lineno, imports, converted_vars)
         IN [node |-> [node EXCEPT !.left = l.node, !.right = r.node],
             updates |-> l.updates \o r.updates]

\* Whether the text ast.unparse writes for the statement parses: a call is no
\* assignment, deletion or loop target.
stmt_parses(stmt) == stmt.kind = "Expr" \/ stmt.expr.t \in {"Name", "Attribute"}

\* ast.unparse(new_tree) for a consuming file: the text, and whether it parses.
unparse_usage(source, new_stmt) ==
    [ok |-> stmt_parses(new_stmt), imports |-> source.imports, stmt |-> new_stmt]

NoUsage ==
    [raised |-> "none", new_source |-> NoText, updates |-> <<>>, warnings |-> <<>>]

\* update_usage_file(file_path, target_file, module_root, converted_vars), given
\* the module name get_module_name_from_file computed and the text read.
update_usage_file(source, target_module, converted_vars) ==
    IF target_module = None \/ target_module = <<>> THEN NoUsage
    ELSE LET found == analyze_imports(source, target_module, converted_vars) IN
         IF found.raised # "none" THEN [NoUsage EXCEPT !.raised = found.raised]
         ELSE IF DOMAIN found.imports = {} /\ found.star_warnings = <<>> THEN NoUsage
         ELSE IF ~source.ok
         THEN [NoUsage EXCEPT !.warnings = found.star_warnings]
         ELSE LET v == visit(source.stmt.expr, source.stmt.lineno,
                             found.imports, converted_vars)
              IN IF v.updates # <<>>
                 THEN [raised |-> "none",
                       new_source |->
                         unparse_usage(source, [source.stmt EXCEPT !.expr = v.node]),
                       updates |-> v.updates,
                       warnings |-> found.star_warnings]
                 ELSE [NoUsage EXCEPT !.warnings = found.star_warnings]

\* --------------------------------------------- consuming files considered

\* Module names: the target is c, p.c or bc (a name that only ends in the
\* characters of c); g is another module.
ModC == <<"c">>
ModBC == <<"b", "c">>
ModPC == <<"p", ".", "c">>
ModP == <<"p">>
ModG == <<"g">>

TargetModules == {ModC, ModPC, ModBC}

alias(name, asname) == [name |-> name, asname |-> asname]

\* from M import * | from M import x | from M import x as s
ImportFromStmts ==
    {[node |-> "ImportFrom", module |-> m, names |-> <<a>>, lineno |-> 0] :
       m \in {ModC, ModPC, ModG},
       a \in {alias(<<"*">>, None), alias(<<"x">>, None), alias(<<"x">>, <<"s">>)}}

\* import M | import M as s
ImportStmts ==
    {[node |-> "Import", module |-> None, names |-> <<alias(m, a)>>, lineno |-> 0] :
       m \in {ModC, ModPC, ModP}, a \in {None, <<"s">>}}

\* A bare name refers to the module-level binding of that name ("import") or to
\* something else the file binds under it, such as a parameter ("local").
LoadNames ==
    {NameNode(id, "Load", r, 0) : id \in {<<"x">>, <<"s">>}, r \in {"import", "local"}}

\* m.x, m.k, p.c.x, p.c.k and x.k
LoadAttributes ==
    {AttributeNode(NameNode(m, "Load", "import", 0), a, "Load") :
       m \in {ModC, ModP, <<"s">>}, a \in {<<"x">>, <<"k">>}}
    \cup {AttributeNode(AttributeNode(NameNode(ModP, "Load", "import", 0), ModC, "Load"),
                        a, "Load") : a \in {<<"x">>, <<"k">>}}
    \cup {AttributeNode(NameNode(<<"x">>, "Load", "import", 0), <<"k">>, "Load")}

\* x(), c.x() and e1 + e2
LoadExprs ==
    LoadNames \cup LoadAttributes
    \cup {CallNode(NameNode(<<"x">>, "Load", "import", 0)),
          CallNode(AttributeNode(NameNode(ModC, "Load", "import", 0), <<"x">>, "Load"))}
    \cup {BinOpNode(l, [r EXCEPT !.col_offset = 8]) :
            l \in {NameNode(<<"x">>, "Load", r1, 0) : r1 \in {"import", "local"}}
                  \cup {AttributeNode(NameNode(ModC, "Load", "import", 0), <<"x">>, "Load")},
            r \in {NameNode(<<"x">>, "Load", r2, 0) : r2 \in {"import", "local"}}}

\* The targets of `e = ...`, `del e` and `for e in ...`: x, c.x and x.k
TargetExprs(ctx, col) ==
    {NameNode(<<"x">>, ctx, "import", col),
     AttributeNode(NameNode(ModC, "Load", "import", col), <<"x">>, ctx),
     AttributeNode(NameNode(<<"x">>, "Load", "import", col), <<"k">>, ctx)}

UsageStmts ==
    {[kind |-> "Expr", expr |-> e, lineno |-> 0] : e \in LoadExprs}
    \cup {[kind |-> "Assign", expr |-> e, lineno |-> 0] : e \in TargetExprs("Store", 0)}
    \cup {[kind |-> "Delete", expr |-> e, lineno |-> 0] : e \in TargetExprs("Del", 4)}
    \cup {[kind |-> "For", expr |-> e, lineno |-> 0] : e \in TargetExprs("Store", 4)}

\* A consuming file: its import statements, one per line, then one statement.
usage_source(imports, stmt) ==
    [ok |-> TRUE,
     imports |-> [i \in 1..Len(imports) |-> [imports[i] EXCEPT !.lineno = i]],
     stmt |-> [stmt EXCEPT !.lineno = Len(imports) + 1]]

UnparsableUsage ==
    [ok |-> FALSE, imports |-> <<>>,
     stmt |-> [kind |-> "Expr", expr |-> NameNode(<<"x">>, "Load", "import", 0),
               lineno |-> 1]]

UsageSources ==
    {usage_source(is, st) :
       is \in SeqsUpTo(ImportFromStmts \cup ImportStmts, MaxImports),
       st \in UsageStmts}
    \cup {UnparsableUsage}

\* ------------------------------------ update_usage_file as a state machine

U_Idle ==
    /\ u_pc = "idle" /\ u_source = UnparsableUsage /\ u_module = None
    /\ u_result = NoUsage

U_Init ==
    /\ u_pc = "read"
    /\ u_source \in UsageSources
    /\ u_module \in TargetModules
    /\ u_result = NoUsage

\* cli step 4, one file: update_usage_file(py_file, target_file, module_root, var_names)
U_Update ==
    /\ u_pc = "read"
    /\ u_result' = update_usage_file(u_source, u_module, ConvertedVars)
    /\ u_pc' = "done"
    /\ UNCHANGED <<u_source, u_module>>

\* ------------------------------------------------- scanner.py: the module

\* A path is the sequence of its names below the filesystem root, a file's last
\* name being its stem (every file considered is a *.py file).
Parent(path) == IF path = <<>> THEN <<>> ELSE SubSeq(path, 1, Len(path) - 1)

InitStem == <<"__init__">>

\* (parent / "__init__.py").exists()
has_init(dir, files) == Append(dir, InitStem) \in files

RECURSIVE climb(_, _, _, _)
\* The while loop of find_module_root.
climb(current_dir, root, files, git) ==
    IF Parent(current_dir) = current_dir THEN root
    ELSE IF git # NoPath /\ current_dir = git THEN root
    ELSE IF ~has_init(Parent(current_dir), files) THEN root
    ELSE climb(Parent(current_dir), current_dir, files, git)

\* find_module_root(target_file), given the files on disk and what
\* find_git_root returned (None outside a repository).
find_module_root(target_file, files, git) ==
    climb(Parent(target_file), Parent(target_file), files, git)

exclude_dirs ==
    {<<"__pycache__">>, <<".git">>, <<".venv">>, <<"venv">>, <<"node_modules">>,
     <<".pytest_cache">>}

\* path.parents: every ancestor directory, up to the filesystem root.
parents(path) == {SubSeq(path, 1, n) : n \in 0..(Len(path) - 1)}

\* parent.name ("" for the filesystem root)
dir_name(dir) == IF dir = <<>> THEN <<>> ELSE dir[Len(dir)]

\* find_python_files(module_root): Path(module_root).rglob("*.py"), less the
\* paths with a parent whose name is excluded. The order is the directory
\* walk's; the result is modelled as the set.
find_python_files(root, files) ==
    {f \in files :
       /\ Len(f) > Len(root) /\ SubSeq(f, 1, Len(root)) = root
       /\ ~\E d \in parents(f) : dir_name(d) \in exclude_dirs}

\* get_module_name_from_file(target_file, current_file, module_root)
get_module_name_from_file(target_file, root) ==
    IF ~(Len(target_file) > Len(root) /\ SubSeq(target_file, 1, Len(root)) = root)
    THEN None
    ELSE join_dot(SubSeq(target_file, Len(root) + 1, Len(target_file)))

\* --------------------------------------- scan_module as a state machine

\* Directory names: an ordinary one and one of the excluded names.
DirNames == {<<"a">>, <<"venv">>}

\* The directories a target file can sit in, the filesystem root included.
TargetDirs == SeqsUpTo(DirNames, MaxDepth)

\* The files of a tree around the target d/c.py: its sibling d/u.py, d/sub/s.py
\* below it, d/venv/z.py in an excluded directory below it, w.py in the
\* directory above, and the package markers present.
tree_files(d, markers) ==
    {Append(d, <<"c">>), Append(d, <<"u">>),
     d \o <<<<"sub">>, <<"s">>>>, d \o <<<<"venv">>, <<"z">>>>}
    \cup (IF d = <<>> THEN {} ELSE {Append(Parent(d), <<"w">>)})
    \cup markers

S_Idle ==
    /\ s_pc = "idle" /\ s_target = NoPath /\ s_files = {} /\ s_git = NoPath
    /\ s_root = NoPath /\ s_found = {}

S_Init ==
    /\ s_pc = "start"
    /\ \E d \in TargetDirs :
         /\ s_target = Append(d, <<"c">>)
         /\ \E markers \in SUBSET {Append(a, InitStem) : a \in parents(s_target)} :
              s_files = tree_files(d, markers)
         /\ s_git \in {NoPath} \cup parents(s_target)
    /\ s_root = NoPath
    /\ s_found = {}

\* scan_module, line 113: module_root = find_module_root(target_file)
S_FindModuleRoot ==
    /\ s_pc = "start"
    /\ s_root' = find_module_root(s_target, s_files, s_git)
    /\ s_pc' = "rooted"
    /\ UNCHANGED <<s_target, s_files, s_git, s_found>>

\* scan_module, line 114: python_files = find_python_files(module_root)
S_FindPythonFiles ==
    /\ s_pc = "rooted"
    /\ s_found' = find_python_files(s_root, s_files)
    /\ s_pc' = "scanned"
    /\ UNCHANGED <<s_target, s_files, s_git, s_root>>

\* ------------------------------------------------------ cli.py: one run

\* The tree the run works in: the target /r/q/p/c.py, a sibling u.py, w.py one
\* directory up, a file in an excluded directory, and optional package markers.
DirR == <<<<"r">>>>
DirQ == <<<<"r">>, <<"q">>>>
DirP == <<<<"r">>, <<"q">>, <<"p">>>>
TargetFile == Append(DirP, <<"c">>)
FileU == Append(DirP, <<"u">>)
FileW == Append(DirQ, <<"w">>)
FileZ == DirP \o <<<<"venv">>, <<"z">>>>
InitQ == Append(DirQ, InitStem)
InitR == Append(DirR, InitStem)

\* from c import x, then a use of x
RewrittenSource ==
    usage_source(<<[node |-> "ImportFrom", module |-> ModC,
                    names |-> <<alias(<<"x">>, None)>>, lineno |-> 0]>>,
                 [kind |-> "Expr", expr |-> NameNode(<<"x">>, "Load", "import", 0),
                  lineno |-> 0])

\* from c import *, then a use of x
WildcardSource ==
    usage_source(<<[node |-> "ImportFrom", module |-> ModC,
                    names |-> <<alias(<<"*">>, None)>>, lineno |-> 0]>>,
                 [kind |-> "Expr", expr |-> NameNode(<<"x">>, "Load", "import", 0),
                  lineno |-> 0])

\* no import at all
UnrelatedSource ==
    usage_source(<<>>, [kind |-> "Expr",
                        expr |-> NameNode(<<"x">>, "Load", "local", 0), lineno |-> 0])

CliUsageSources == {RewrittenSource, WildcardSource, UnrelatedSource, UnparsableUsage}

\* x = v1 | Y = v1 | x, y = v1 | a text that does not parse
CliTargetSources ==
    {[ok |-> TRUE, body |-> parse_lines(<<Assign(ts, "v1", 0)>>, 1)] :
       ts \in {<<Name(<<"x">>)>>, <<Name(<<"Y">>)>>, <<Tuple(<<<<"x">>, <<"y">>>>)>>}}
    \cup {Unparsable}

Terminal == {"done", "aborted", "exit0", "exit1"}

C_Idle ==
    /\ pc = "idle" /\ apply = FALSE /\ pattern_given = FALSE /\ config_saved = FALSE
    /\ git_root = NoPath /\ fs0 = <<>> /\ fs = <<>>
    /\ variables = <<>> /\ skipped = <<>> /\ module_root = None
    /\ python_files = {} /\ remaining = {} /\ results = <<>>
    /\ files_to_update = <<>> /\ to_write = <<>> /\ transformed_source = NoText
    /\ io = <<>> /\ error = "none"

C_Init ==
    /\ pc = "start"
    /\ apply \in BOOLEAN
    /\ pattern_given \in BOOLEAN
    /\ config_saved = FALSE
    /\ git_root \in {NoPath, DirQ, DirP}
    /\ \E markers \in SUBSET {InitQ, InitR} :
       \E t \in CliTargetSources, u \in CliUsageSources, w \in CliUsageSources :
          fs0 = [f \in {TargetFile, FileU, FileW, FileZ} \cup markers |->
                   IF f = TargetFile THEN t
                   ELSE IF f = FileU THEN u
                   ELSE IF f = FileW THEN w
                   ELSE IF f = FileZ THEN RewrittenSource
                   ELSE UnrelatedSource]
    /\ fs = fs0
    /\ variables = <<>> /\ skipped = <<>> /\ module_root = None
    /\ python_files = {} /\ remaining = {} /\ results = <<>>
    /\ files_to_update = <<>> /\ to_write = <<>> /\ transformed_source = NoText
    /\ io = <<>> /\ error = "none"

Read(f) == [op |-> "read", file |-> f]
Write(f) == [op |-> "write", file |-> f]

\* An exception reaches `except Exception`: the run prints it and exits 1.
Abort(e) == pc' = "aborted" /\ error' = e

\* A variant that lets step 5 start while the loop still has files.
loop_left_early == TRUE

\* The for loop of step 4 has no file left.
loop_exhausted == remaining = {}

\* A variant that also keeps a file that only has warnings.
keeps_source_or_warnings(r) == r.new_source # NoText \/ r.warnings # <<>>

\* `if new_source:` of step 4
keeps_source(r) == r.new_source # NoText

\* Lines 35-54: the target must exist and be a file; get_glob_pattern saves the
\* pattern when one is given, or after prompting for one when none is saved;
\* the file name must match it.
Preflight ==
    /\ pc = "start"
    /\ \E is_file \in BOOLEAN, saved \in BOOLEAN, matches \in BOOLEAN :
       /\ config_saved' = (is_file /\ (pattern_given \/ ~saved))
       /\ pc' = IF is_file /\ matches THEN "analyze" ELSE "exit1"
    /\ UNCHANGED <<apply, pattern_given, git_root, fs0, fs, variables, skipped,
                   module_root, python_files, remaining, results, files_to_update,
                   to_write, transformed_source, io, error>>

\* Step 1: analyze_file(target_file); nothing found exits 0.
AnalyzeTarget ==
    /\ pc = "analyze"
    /\ \E readable \in BOOLEAN :
       IF ~readable
       THEN /\ Abort("OSError")
            /\ UNCHANGED <<variables, skipped, io>>
       ELSE LET found == analyze_file(fs[TargetFile]) IN
            /\ io' = Append(io, Read(TargetFile))
            /\ IF found.raised # "none"
               THEN Abort(found.raised) /\ UNCHANGED <<variables, skipped>>
               ELSE /\ variables' = found.variables
                    /\ skipped' = found.skipped
                    /\ error' = error
                    /\ pc' = IF found.variables = <<>> /\ found.skipped = <<>>
                             THEN "exit0" ELSE "scan"
    /\ UNCHANGED <<apply, pattern_given, config_saved, git_root, fs0, fs, module_root,
                   python_files, remaining, results, files_to_update, to_write,
                   transformed_source>>

\* Step 3: scan_module(target_file)
ScanModule ==
    /\ pc = "scan"
    /\ module_root' = find_module_root(TargetFile, DOMAIN fs, git_root)
    /\ python_files' = find_python_files(module_root', DOMAIN fs)
    /\ remaining' = python_files'
    /\ pc' = "loop"
    /\ UNCHANGED <<apply, pattern_given, config_saved, git_root, fs0, fs, variables,
                   skipped, results, files_to_update, to_write, transformed_source,
                   io, error>>

\* Step 4, the target's turn in the loop: skipped.
SkipTarget ==
    /\ pc = "loop"
    /\ TargetFile \in remaining
    /\ remaining' = remaining \ {TargetFile}
    /\ UNCHANGED <<pc, apply, pattern_given, config_saved, git_root, fs0, fs, variables,
                   skipped, module_root, python_files, results, files_to_update,
                   to_write, transformed_source, io, error>>

\* Step 4, another file's turn: update_usage_file reads it (twice: itself and
\* analyze_imports), and the loop keeps the new text if there is one.
UpdateUsage ==
    /\ pc = "loop"
    /\ \E f \in remaining \ {TargetFile}, readable \in BOOLEAN :
       IF ~readable
       THEN /\ Abort("OSError")
            /\ UNCHANGED <<remaining, results, files_to_update, io>>
       ELSE LET r == update_usage_file(
                       fs[f], get_module_name_from_file(TargetFile, module_root),
                       var_names_of(variables)) IN
            /\ io' = io \o <<Read(f), Read(f)>>
            /\ IF r.raised # "none"
               THEN Abort(r.raised) /\ UNCHANGED <<remaining, results, files_to_update>>
               ELSE /\ remaining' = remaining \ {f}
                    /\ results' = (f :> r) @@ results
                    /\ files_to_update' =
                         IF keeps_source(r)
                         THEN Append(files_to_update, <<f, r.new_source>>)
                         ELSE files_to_update
                    /\ UNCHANGED <<pc, error>>
    /\ UNCHANGED <<apply, pattern_given, config_saved, git_root, fs0, fs, variables,
                   skipped, module_root, python_files, to_write, transformed_source>>

\* Step 5, after the loop: apply, or the dry-run summary.
EndLoop ==
    /\ pc = "loop"
    /\ loop_exhausted
    /\ pc' = IF apply THEN "transform" ELSE "done"
    /\ UNCHANGED <<apply, pattern_given, config_saved, git_root, fs0, fs, variables,
                   skipped, module_root, python_files, remaining, results,
                   files_to_update, to_write, transformed_source, io, error>>

\* Step 5: transform_file(target_file, variables) reads the target again.
TransformTarget ==
    /\ pc = "transform"
    /\ \E readable \in BOOLEAN :
       IF ~readable
       THEN Abort("OSError") /\ UNCHANGED <<transformed_source, io>>
       ELSE LET t == transform_file(fs[TargetFile], variables) IN
            /\ io' = Append(io, Read(TargetFile))
            /\ IF t.raised # "none"
               THEN Abort(t.raised) /\ UNCHANGED transformed_source
               ELSE /\ transformed_source' = t.text
                    /\ pc' = "write_target"
                    /\ error' = error
    /\ UNCHANGED <<apply, pattern_given, config_saved, git_root, fs0, fs, variables,
                   skipped, module_root, python_files, remaining, results,
                   files_to_update, to_write>>

\* Step 5: open(target_file, "w") and write; a file that cannot be opened for
\* writing raises and is left as it was.
WriteTarget ==
    /\ pc = "write_target"
    /\ \E writable \in BOOLEAN :
       IF ~writable
       THEN Abort("OSError") /\ UNCHANGED <<fs, io, to_write>>
       ELSE /\ fs' = [fs EXCEPT ![TargetFile] = transformed_source]
            /\ io' = Append(io, Write(TargetFile))
            /\ to_write' = files_to_update
            /\ pc' = "write_usages"
            /\ error' = error
    /\ UNCHANGED <<apply, pattern_given, config_saved, git_root, fs0, variables, skipped,
                   module_root, python_files, remaining, results, files_to_update,
                   transformed_source>>

\* Step 5: the next entry of files_to_update, in insertion order.
WriteUsage ==
    /\ pc = "write_usages"
    /\ to_write # <<>>
    /\ \E writable \in BOOLEAN :
       IF ~writable
       THEN Abort("OSError") /\ UNCHANGED <<fs, io, to_write>>
       ELSE /\ fs' = [fs EXCEPT ![Head(to_write)[1]] = Head(to_write)[2]]
            /\ io' = Append(io, Write(Head(to_write)[1]))
            /\ to_write' = Tail(to_write)
            /\ UNCHANGED <<pc, error>>
    /\ UNCHANGED <<apply, pattern_given, config_saved, git_root, fs0, variables, skipped,
                   module_root, python_files, remaining, results, files_to_update,
                   transformed_source>>

\* Step 5: print_summary and print_apply_confirmation.
Finish ==
    /\ pc = "write_usages"
    /\ to_write = <<>>
    /\ pc' = "done"
    /\ UNCHANGED <<apply, pattern_given, config_saved, git_root, fs0, fs, variables,
                   skipped, module_root, python_files, remaining, results,
                   files_to_update, to_write, transformed_source, io, error>>

\* ------------------------------------------------------- specifications

\* One run of the command line.
Init == C_Init /\ T_Idle /\ U_Idle /\ S_Idle
Next ==
    \/ Preflight /\ UNCHANGED <<tvars, uvars, svars>>
    \/ AnalyzeTarget /\ UNCHANGED <<tvars, uvars, svars>>
    \/ ScanModule /\ UNCHANGED <<tvars, uvars, svars>>
    \/ SkipTarget /\ UNCHANGED <<tvars, uvars, svars>>
    \/ UpdateUsage /\ UNCHANGED <<tvars, uvars, svars>>
    \/ EndLoop /\ UNCHANGED <<tvars, uvars, svars>>
    \/ TransformTarget /\ UNCHANGED <<tvars, uvars, svars>>
    \/ WriteTarget /\ UNCHANGED <<tvars, uvars, svars>>
    \/ WriteUsage /\ UNCHANGED <<tvars, uvars, svars>>
    \/ Finish /\ UNCHANGED <<tvars, uvars, svars>>
Spec == Init /\ [][Next]_vars

\* The target file through analysis, rewrite and a second analysis.
TargetInit == T_Init /\ U_Idle /\ C_Idle /\ S_Idle
TargetNext ==
    \/ T_Analyze /\ UNCHANGED <<uvars, cvars, svars>>
    \/ T_Transform /\ UNCHANGED <<uvars, cvars, svars>>
    \/ T_Reanalyze /\ UNCHANGED <<uvars, cvars, svars>>
TargetSpec == TargetInit /\ [][TargetNext]_vars

\* One consuming file through update_usage_file.
UsageInit == U_Init /\ T_Idle /\ C_Idle /\ S_Idle
UsageNext == U_Update /\ UNCHANGED <<tvars, cvars, svars>>
UsageSpec == UsageInit /\ [][UsageNext]_vars

\* scan_module on one tree.
ScanInit == S_Init /\ T_Idle /\ U_Idle /\ C_Idle
ScanNext ==
    \/ S_FindModuleRoot /\ UNCHANGED <<tvars, uvars, cvars>>
    \/ S_FindPythonFiles /\ UNCHANGED <<tvars, uvars, cvars>>
ScanSpec == ScanInit /\ [][ScanNext]_vars

\* ------------------------------------------------------------- properties

\* ---- the run

Written == {io[i].file : i \in {j \in 1..Len(io) : io[j].op = "write"}}

\* The consuming files for which update_usage_file produced a UsageRewrite.
Rewritten == {f \in DOMAIN results : results[f].updates # <<>>}

\* C1: a run never ends partially applied: when it has ended, either no file
\* has been written, or the target and every consuming file with a
\* UsageRewrite have all been written.
C1_NoPartialApplication ==
    pc \in Terminal => Written = {} \/ Written = {TargetFile} \cup Rewritten

C9_ConsumerParseFailureNotFatal ==
    /\ \A f \in DOMAIN results :
         ~fs0[f].ok => /\ results[f].new_source = NoText
                       /\ results[f].updates = <<>>
                       /\ results[f].raised = "none"
    /\ error \in {"none", "OSError", "ValueError"}
    /\ error = "ValueError" => ~fs0[TargetFile].ok
    /\ pc \in {"transform", "write_target", "write_usages", "done"} =>
         python_files \ {TargetFile} \subseteq DOMAIN results
    /\ (pc = "done" /\ apply) => Written = {TargetFile} \cup Rewritten

C9_Witness ==
    /\ pc = "done" /\ apply
    /\ FileU \in DOMAIN results /\ ~fs0[FileU].ok
    /\ FileW \in Written
    /\ TargetFile \in Written

\* ---- the target file

StripStmt(n) ==
    IF n.node = "Assign" THEN [node |-> "Assign", targets |-> n.targets, value |-> n.value]
    ELSE IF n.node = "FunctionDef"
    THEN [node |-> "FunctionDef", name |-> n.name, body |-> n.body]
    ELSE [node |-> n.node,
          body |-> [j \in 1..Len(n.body) |->
                      [node |-> n.body[j].node,
                       shape |-> IF n.body[j].node = "Assign"
                                 THEN <<n.body[j].targets, n.body[j].value>>
                                 ELSE <<n.body[j].name, n.body[j].body>>]]]

\* A statement of the module's own body that assigns one simple name.
SimpleNameAssign(n) ==
    n.node = "Assign" /\ Len(n.targets) = 1 /\ n.targets[1].kind = "Name"

\* C7: transform_file replaces every top-level single-target simple-name
\* assignment of a converted name by a zero-argument callable of that name, at
\* the same position, returning the original value; every other statement
\* (skipped patterns and nested assignments included) is unchanged, in order.
C7_TransformExact ==
    t_pc \in {"written", "reanalyzed"} =>
      /\ Len(t_out.body) = Len(t_source.body)
      /\ \A i \in 1..Len(t_source.body) :
           LET n == t_source.body[i] IN
           IF SimpleNameAssign(n) /\ n.targets[1].id \in var_names_of(t_found.variables)
           THEN StripStmt(t_out.body[i])
                  = StripStmt(FunctionDef(n.targets[1].id, n.value, 0, 0))
           ELSE StripStmt(t_out.body[i]) = StripStmt(n)

\* C8: analyze_file on the rewritten target returns no Binding under a name
\* that was converted.
C8_NoConvertedBindingRemains ==
    t_pc = "reanalyzed" =>
      var_names_of(t_again.variables) \cap var_names_of(t_found.variables) = {}

\* ---- a consuming file

RECURSIVE NameNodes(_)
NameNodes(e) ==
    IF e.t = "Name" THEN {e}
    ELSE IF e.t = "Attribute" THEN NameNodes(e.value)
    ELSE IF e.t = "Call" THEN NameNodes(e.func)
    ELSE NameNodes(e.left) \cup NameNodes(e.right)

RECURSIVE AttributeNodes(_)
AttributeNodes(e) ==
    IF e.t = "Name" THEN {}
    ELSE IF e.t = "Attribute" THEN {e} \cup AttributeNodes(e.value)
    ELSE IF e.t = "Call" THEN AttributeNodes(e.func)
    ELSE AttributeNodes(e.left) \cup AttributeNodes(e.right)

RECURSIVE Dotted(_)
\* The text of a name or of a chain of attribute accesses: p.c.x
Dotted(e) ==
    IF e.t = "Name" THEN e.id
    ELSE IF e.t = "Attribute" THEN Dotted(e.value) \o <<".">> \o e.attr
    ELSE None

UpdatesAt(e) ==
    {i \in 1..Len(u_result.updates) :
       /\ u_result.updates[i].original = Dotted(e)
       /\ u_result.updates[i].col_offset = e.col_offset
       /\ u_result.updates[i].lineno = u_source.stmt.lineno}

\* The lines of the file's `from <target> import *` statements.
StarImports ==
    {i \in 1..Len(u_source.imports) :
       /\ u_source.imports[i].node = "ImportFrom"
       /\ u_source.imports[i].module = u_module
       /\ \E a \in Range(u_source.imports[i].names) : a.name = <<"*">>}

\* The local names bound by the file's `from M import name [as alias]`
\* statements whose M is the target's module name, or a tail of it, or has it
\* as a tail: the names that have a qualified ImportBinding.
QualifiedLocals ==
    {imported_as_of(a) :
       a \in {b \in UNION {Range(u_source.imports[i].names) :
                             i \in {j \in 1..Len(u_source.imports) :
                                      /\ u_source.imports[j].node = "ImportFrom"
                                      /\ \/ endswith(u_module, u_source.imports[j].module)
                                         \/ endswith(u_source.imports[j].module, u_module)}} :
                b.name # <<"*">>}}

\* The local names bound by the file's `import M [as alias]` statements whose M
\* is the target's module name, a package above it or a module below it: the
\* names that have a direct ImportBinding.
DirectLocals ==
    {imported_as_of(a) :
       a \in {b \in UNION {Range(u_source.imports[i].names) :
                             i \in {j \in 1..Len(u_source.imports) :
                                      u_source.imports[j].node = "Import"}} :
                \/ b.name = u_module
                \/ startswith(u_module, b.name \o <<".">>)
                \/ startswith(b.name, u_module \o <<".">>)}}

C5_OnlyResolvedNames ==
    u_pc = "done" =>
      \A n \in NameNodes(u_source.stmt.expr) :
        (n.ctx = "Load" /\ n.resolves = "local") => UpdatesAt(n) = {}

RECURSIVE WrapFlagged(_, _)
\* The tree with a zero-argument call added at each flagged location.
WrapFlagged(e, flags) ==
    LET inner ==
          IF e.t = "Name" THEN e
          ELSE IF e.t = "Attribute"
          THEN IF <<e.col_offset, Dotted(e)>> \in flags THEN e
               ELSE [e EXCEPT !.value = WrapFlagged(e.value, flags)]
          ELSE IF e.t = "Call" THEN [e EXCEPT !.func = WrapFlagged(e.func, flags)]
          ELSE [e EXCEPT !.left = WrapFlagged(e.left, flags),
                         !.right = WrapFlagged(e.right, flags)]
    IN IF e.t \in {"Name", "Attribute"} /\ <<e.col_offset, Dotted(e)>> \in flags
       THEN CallNode(inner) ELSE inner

Flags ==
    {<<u_result.updates[i].col_offset, u_result.updates[i].original>> :
       i \in 1..Len(u_result.updates)}

\* The rewritten text is the original with one call added at each flagged
\* location and nothing else changed.
OnlyCallsAdded ==
    (u_pc = "done" /\ u_result.updates # <<>>) =>
      /\ u_result.new_source.imports = u_source.imports
      /\ u_result.new_source.stmt.kind = u_source.stmt.kind
      /\ u_result.new_source.stmt.expr = WrapFlagged(u_source.stmt.expr, Flags)
      /\ Cardinality(Flags) = Len(u_result.updates)

\* C6: whenever update_usage_file returns UsageRewrites, the rewritten text
\* parses and differs from the original by exactly one added call at each
\* flagged location, whatever position the identifier is in.
C6_RewrittenParses ==
    (u_pc = "done" /\ u_result.updates # <<>>) =>
      u_result.new_source.ok /\ OnlyCallsAdded

\* C10: for every `import <target> [as alias]`, every attribute access of a
\* converted name through the module's local name is rewritten and recorded
\* once, and an access to any other name is left alone.
C10_DirectImportRewritten ==
    (u_pc = "done" /\ u_source.ok) =>
      \A i \in 1..Len(u_source.imports) :
        u_source.imports[i].node = "Import" =>
          \A a \in Range(u_source.imports[i].names) :
            a.name = u_module =>
              \A n \in AttributeNodes(u_source.stmt.expr) :
                Dotted(n.value) = imported_as_of(a) =>
                  IF n.attr \in ConvertedVars
                  THEN Cardinality(UpdatesAt(n)) = 1
                  ELSE UpdatesAt(n) = {}

\* The same, for local names that are a single identifier.
C10_UndottedLocal ==
    (u_pc = "done" /\ u_source.ok) =>
      \A i \in 1..Len(u_source.imports) :
        u_source.imports[i].node = "Import" =>
          \A a \in Range(u_source.imports[i].names) :
            (a.name = u_module /\ <<".">> \notin {<<c>> : c \in Range(imported_as_of(a))}) =>
              \A n \in AttributeNodes(u_source.stmt.expr) :
                Dotted(n.value) = imported_as_of(a) =>
                  IF n.attr \in ConvertedVars
                  THEN Cardinality(UpdatesAt(n)) = 1
                  ELSE UpdatesAt(n) = {}

\* ---- the binding classifier

\* The names a statement assigns: each simple-name target and each element of
\* a tuple or list target.
TargetNames(n) ==
    UNION {IF n.targets[i].kind = "Name" THEN {n.targets[i].id}
           ELSE Range(n.targets[i].elts) : i \in 1..Len(n.targets)}

\* An assignment with several targets, or with a tuple or list target.
Destructuring(n) ==
    /\ n.node = "Assign"
    /\ \/ Len(n.targets) > 1
       \/ n.targets[1].kind \in {"Tuple", "List"}

\* The statements of the file that t_found reports as SkippedPatterns: a report
\* carries the line of a statement that starts its line.
SkippedStatements ==
    {n \in Range(ast_walk(t_source.body)) :
       /\ Destructuring(n)
       /\ n.col_offset = 0
       /\ \E i \in 1..Len(t_found.skipped) : t_found.skipped[i].lineno = n.lineno}

SkippedNames == UNION {TargetNames(n) : n \in SkippedStatements}

Analyzed == t_pc \in {"analyzed", "written", "reanalyzed"}

\* C11: the names analyze_file converts are disjoint from the names assigned
\* by the statements it reports as SkippedPatterns.
C11_ConvertedSkippedDisjoint ==
    Analyzed => var_names_of(t_found.variables) \cap SkippedNames = {}

\* The line numbers of a list of findings never go down.
InOrderOfAppearance(findings) ==
    \A i \in 1..Len(findings) : \A j \in 1..Len(findings) :
      i < j => findings[i].lineno <= findings[j].lineno

\* C12: every top-level assignment with several targets or a tuple or list
\* target has exactly one SkippedPattern and no Binding, wherever it sits on
\* its line, and SkippedPatterns and Bindings are each in order of appearance.
C12_DestructuringReported ==
    Analyzed =>
      /\ \A k \in 1..Len(t_source.body) :
           Destructuring(t_source.body[k]) =>
             Cardinality({i \in 1..Len(t_found.skipped) :
                            t_found.skipped[i].lineno = t_source.body[k].lineno})
               = Cardinality({j \in 1..Len(t_source.body) :
                                /\ Destructuring(t_source.body[j])
                                /\ t_source.body[j].lineno = t_source.body[k].lineno})
      /\ \A i \in 1..Len(t_found.variables) :
           \E n \in Range(ast_walk(t_source.body)) :
             /\ SimpleNameAssign(n)
             /\ n.lineno = t_found.variables[i].lineno
             /\ n.targets[1].id = t_found.variables[i].name
      /\ InOrderOfAppearance(t_found.skipped)
      /\ InOrderOfAppearance(t_found.variables)

\* What does hold: a tuple or multi-target assignment that starts its line is
\* reported once, with the reason for its shape.
C12_ReportedAtLineStart ==
    Analyzed =>
      \A k \in 1..Len(t_source.body) :
        LET n == t_source.body[k] IN
        (Destructuring(n) /\ n.col_offset = 0 /\ n.targets[1].kind # "List") =>
          Cardinality({i \in 1..Len(t_found.skipped) :
                         /\ t_found.skipped[i].lineno = n.lineno
                         /\ t_found.skipped[i].reason
                              = IF Len(n.targets) > 1 THEN "multiple assignment"
                                ELSE "tuple unpacking"}) = 1

\* ---- the module scanner

\* s is p itself or a path below p.
IsUnder(s, p) == Len(s) >= Len(p) /\ SubSeq(s, 1, Len(p)) = p

RECURSIVE LastReached(_, _, _)
\* The directory at which the climb stops: from d to its parent while d is
\* neither the filesystem root nor the version-control root and the parent
\* holds __init__.py.
LastReached(d, files, git) ==
    IF d = <<>> \/ (git # NoPath /\ d = git) \/ ~has_init(Parent(d), files) THEN d
    ELSE LastReached(Parent(d), files, git)

\* C13: find_module_root returns the last directory the climb reached, and
\* never a directory above the version-control root.
C13_RootIsLastReached ==
    s_pc \in {"rooted", "scanned"} =>
      /\ s_root = LastReached(Parent(s_target), s_files, s_git)
      /\ s_git # NoPath => IsUnder(s_root, s_git)

\* What does hold: the result is the directory one step below the last
\* directory reached (the target's directory when the climb made no step), and
\* it is not above the version-control root.
C13_RootOneBelowLastReached ==
    s_pc \in {"rooted", "scanned"} =>
      LET last == LastReached(Parent(s_target), s_files, s_git) IN
      /\ IF last = Parent(s_target) THEN s_root = last
         ELSE Parent(s_root) = last /\ IsUnder(Parent(s_target), s_root)
      /\ s_git # NoPath => IsUnder(s_root, s_git)

\* The directories a file passes through below root.
DirsBelow(f, root) == {d \in parents(f) : Len(d) > Len(root)}

\* C15: find_python_files returns exactly the files under the module root
\* whose path below it passes through no excluded directory; directories above
\* the module root have no effect.
C15_FilesUnderRoot ==
    s_pc = "scanned" =>
      s_found = {f \in s_files :
                   /\ Len(f) > Len(s_root) /\ IsUnder(f, s_root)
                   /\ \A d \in DirsBelow(f, s_root) : dir_name(d) \notin exclude_dirs}

\* What does hold: no enumerated file has an excluded directory on its path,
\* and every file under the root with no excluded directory anywhere on its
\* absolute path is enumerated.
C15_NoExcludedOnPath ==
    s_pc = "scanned" =>
      /\ \A f \in s_found :
           IsUnder(f, s_root) /\ \A d \in parents(f) : dir_name(d) \notin exclude_dirs
      /\ \A f \in s_files :
           (/\ Len(f) > Len(s_root) /\ IsUnder(f, s_root)
            /\ \A d \in parents(f) : dir_name(d) \notin exclude_dirs) => f \in s_found

\* ---- module-name matching

\* m names the module t: the same dotted name, or one is the other's tail on
\* whole dotted components.
RefersTo(m, t) ==
    /\ m # None
    /\ \/ m = t
       \/ endswith(t, <<".">> \o m)
       \/ endswith(m, <<".">> \o t)

\* C14: a qualified ImportBinding or a WildcardImportWarning is registered only
\* for `from M import ...` where M names the target module on whole dotted
\* components, so an import from a module that only shares trailing characters
\* with the target causes no rewrite.
C14_QualifiedOnlyForTarget ==
    (u_pc = "done" /\ u_source.ok) =>
      LET found == analyze_imports(u_source, u_module, ConvertedVars) IN
      /\ \A k \in DOMAIN found.imports :
           found.imports[k].import_type = "from" =>
             RefersTo(found.imports[k].module_name, u_module)
      /\ \A i \in 1..Len(found.star_warnings) :
           RefersTo(found.star_warnings[i].module_name, u_module)
      /\ \A i \in 1..Len(u_result.updates) :
           u_result.updates[i].import_info.import_type = "from" =>
             RefersTo(u_result.updates[i].import_info.module_name, u_module)
      /\ \A i \in 1..Len(u_result.warnings) :
           RefersTo(u_result.warnings[i].module_name, u_module)

\* What does hold: a qualified ImportBinding or a warning is registered only
\* for an M that is the target's name or a tail of its characters.
C14_QualifiedOnlyForTail ==
    (u_pc = "done" /\ u_source.ok) =>
      LET found == analyze_imports(u_source, u_module, ConvertedVars) IN
      /\ \A k \in DOMAIN found.imports :
           found.imports[k].import_type = "from" =>
             endswith(u_module, found.imports[k].module_name)
      /\ \A i \in 1..Len(found.star_warnings) :
           endswith(u_module, found.star_warnings[i].module_name)

====
